---- MODULE Spec2Model ----
(***************************************************************************)
(* A model of the chippie CHIP-8 interpreter: the memory bus (bus.rs), the *)
(* display (gpu.rs), the CPU with its opcode table (cpu.rs) and the host   *)
(* frame loop that drives it (app.rs).                                     *)
(***************************************************************************)
EXTENDS Integers, Sequences, FiniteSets, TLC

(***************************************************************************)
(* Bounds of the model.                                                    *)
(***************************************************************************)
\* the host presses keys 0..MaxKey only
MaxKey == 1
\* ticks_per_frame is drawn from 0..MaxTicks
MaxTicks == 2
\* the call stack holds at most MaxStack return addresses
MaxStack == 3
\* the host loads at most MaxLoads programs
MaxLoads == 1

(***************************************************************************)
(* Fixed-width integer arithmetic.                                         *)
(***************************************************************************)
RECURSIVE Pow2(_)
Pow2(n) == IF n = 0 THEN 1 ELSE 2 * Pow2(n - 1)

RECURSIVE BitAnd(_, _)
BitAnd(a, b) ==
    IF a = 0 \/ b = 0 THEN 0
    ELSE (a % 2) * (b % 2) + 2 * BitAnd(a \div 2, b \div 2)

RECURSIVE BitOr(_, _)
BitOr(a, b) ==
    IF a = 0 THEN b
    ELSE IF b = 0 THEN a
    ELSE (IF a % 2 = 1 \/ b % 2 = 1 THEN 1 ELSE 0) + 2 * BitOr(a \div 2, b \div 2)

RECURSIVE BitXor(_, _)
BitXor(a, b) ==
    IF a = 0 THEN b
    ELSE IF b = 0 THEN a
    ELSE (((a % 2) + (b % 2)) % 2) + 2 * BitXor(a \div 2, b \div 2)

\* u8 arithmetic: wrapping_add, wrapping_sub, overflowing_add, <<=, >>=
WrappingAdd8(a, b) == (a + b) % 256
WrappingSub8(a, b) == (a - b + 256) % 256
Shl8(a) == (a * 2) % 256
Shr8(a) == a \div 2

\* u16 arithmetic with the plain operators +, +=, -=.  An overflow wraps in a
\* build without overflow checks and panics in a build with them.
Add16(a, b) == (a + b) % 65536
Sub16(a, b) == (a - b + 65536) % 65536
Ovf16(a, b) == a + b > 65535
Udf16(a, b) == a < b

(***************************************************************************)
(* Opcode fields (the macros of chip8.rs).                                 *)
(***************************************************************************)
N(opcode) == opcode % 16
\* the low nibble taken for the low byte
NN_LowNibble(opcode) == opcode % 16

NN(opcode) == opcode % 256
\* the opcode taken whole, its top nibble not masked off
NNN_NoMask(opcode) == opcode

NNN(opcode) == opcode % 4096
X(opcode) == (opcode \div 256) % 16
Y(opcode) == (opcode \div 16) % 16
\* opcode & 0xf000, as the top nibble
Top(opcode) == opcode \div 4096

(***************************************************************************)
(* Memory bus (bus.rs).                                                    *)
(***************************************************************************)
MEMORY_SIZE == \h1000
FONT_BASE == \h50
ROM_BASE == \h200

FONT_BYTES ==
    << \hF0, \h90, \h90, \h90, \hF0,
       \h20, \h60, \h20, \h20, \h70,
       \hF0, \h10, \hF0, \h80, \hF0,
       \hF0, \h10, \hF0, \h10, \hF0,
       \h90, \h90, \hF0, \h10, \h10,
       \hF0, \h80, \hF0, \h10, \hF0,
       \hF0, \h80, \hF0, \h90, \hF0,
       \hF0, \h10, \h20, \h40, \h40,
       \hF0, \h90, \hF0, \h90, \hF0,
       \hF0, \h90, \hF0, \h10, \hF0,
       \hF0, \h90, \hF0, \h90, \h90,
       \hE0, \h90, \hE0, \h90, \hE0,
       \hF0, \h80, \h80, \h80, \hF0,
       \hE0, \h90, \h90, \h90, \hE0,
       \hF0, \h80, \hF0, \h80, \hF0,
       \hF0, \h80, \hF0, \h80, \h80 >>

\* an index that saturates at the last cell
BusIndex_Clamped(address) ==
    IF address >= MEMORY_SIZE THEN MEMORY_SIZE - 1 ELSE address

\* the index of the cell an address designates
BusIndex(address) == address % MEMORY_SIZE

read_byte(mem, address) == mem[BusIndex(address)]

save_byte(mem, address, data) == [mem EXCEPT ![BusIndex(address)] = data]

\* the font copied to the start of memory
load_font_AtZero(mem) ==
    [a \in 0..(MEMORY_SIZE - 1) |->
        IF a < Len(FONT_BYTES) THEN FONT_BYTES[a + 1] ELSE mem[a]]

\* memory[0x50..0xa0].copy_from_slice(&FONT_BYTES)
load_font(mem) ==
    [a \in 0..(MEMORY_SIZE - 1) |->
        IF a >= FONT_BASE /\ a < FONT_BASE + Len(FONT_BYTES)
        THEN FONT_BYTES[a - FONT_BASE + 1]
        ELSE mem[a]]

\* the program copied to the font base
load_rom_AtFontBase(mem, source) ==
    [a \in 0..(MEMORY_SIZE - 1) |->
        IF a >= FONT_BASE /\ a < FONT_BASE + Len(source)
        THEN source[a - FONT_BASE + 1]
        ELSE mem[a]]

\* load_rom with the image copied one cell too high
load_rom_OneCellUp(mem, source) ==
    [a \in 0..(MEMORY_SIZE - 1) |->
        IF a > ROM_BASE /\ a <= ROM_BASE + Len(source)
        THEN source[a - ROM_BASE]
        ELSE mem[a]]

\* memory[0x200..0x200 + source.len()].copy_from_slice(source)
load_rom(mem, source) ==
    [a \in 0..(MEMORY_SIZE - 1) |->
        IF a >= ROM_BASE /\ a < ROM_BASE + Len(source)
        THEN source[a - ROM_BASE + 1]
        ELSE mem[a]]

\* Bus::new: memory zeroed, then the font loaded
Bus_new == load_font([a \in 0..(MEMORY_SIZE - 1) |-> 0])

(***************************************************************************)
(* Display (gpu.rs).  A row is a u64, held as the set of its set bits,     *)
(* bit 63 being the leftmost pixel.                                        *)
(***************************************************************************)
\* the set bits of a byte
Bits(byte) == {b \in 0..7 : (byte \div Pow2(b)) % 2 = 1}

\* GPU::new and GPU::clear: all 32 rows zero
GPU_clear == [r \in 0..31 |-> {}]

\* a mask whose pixels past column 63 come back at column 0 (rotate_right)
SpriteMask_Wraps(x, sprite_data) ==
    {(b + 120 - x) % 64 : b \in Bits(sprite_data)}

\* (sprite_data as u64) << (56 - x)  or  (sprite_data as u64) >> (x - 56)
SpriteMask(x, sprite_data) ==
    IF x <= 56
    THEN {b + (56 - x) : b \in Bits(sprite_data)}
    ELSE {b - (x - 56) : b \in {c \in Bits(sprite_data) : c >= x - 56}}

\* draw_sprite_line with the row taken modulo 32
draw_sprite_line_WrapsRows(buffer, x, y, sprite_data) ==
    LET mask == SpriteMask(x, sprite_data)
        row == y % 32
    IN  [buffer |-> [buffer EXCEPT ![row] = (@ \ mask) \cup (mask \ @)],
         collision |-> (buffer[row] \cap mask) # {}]

\* draw_sprite_line with the mask ORed into the row
draw_sprite_line_Or(buffer, x, y, sprite_data) ==
    IF y > 31
    THEN [buffer |-> buffer, collision |-> FALSE]
    ELSE LET mask == SpriteMask(x, sprite_data)
         IN  [buffer |-> [buffer EXCEPT ![y] = @ \cup mask],
              collision |-> (buffer[y] \cap mask) # {}]

\* draw_sprite_line with the collision taken from the row after the XOR
draw_sprite_line_CollisionAfter(buffer, x, y, sprite_data) ==
    IF y > 31
    THEN [buffer |-> buffer, collision |-> FALSE]
    ELSE LET mask == SpriteMask(x, sprite_data)
             row == (buffer[y] \ mask) \cup (mask \ buffer[y])
         IN  [buffer |-> [buffer EXCEPT ![y] = row],
              collision |-> (row \cap mask) # {}]

\* draw_sprite_line: the new buffer and the collision flag
draw_sprite_line(buffer, x, y, sprite_data) ==
    IF y > 31
    THEN [buffer |-> buffer, collision |-> FALSE]
    ELSE LET mask == SpriteMask(x, sprite_data)
         IN  [buffer |-> [buffer EXCEPT ![y] = (@ \ mask) \cup (mask \ @)],
              collision |-> (buffer[y] \cap mask) # {}]

(***************************************************************************)
(* CPU (cpu.rs).  A machine is a record of the fields of struct CPU, the   *)
(* bus memory and the display buffer; `fault` names the panic, if any, and *)
(* `ovf` tells whether a u16 operation of the instruction overflowed.      *)
(***************************************************************************)
\* key_pressed: None
None == -1

FaultNone == "none"
FaultUnderflow == "pop on empty stack"
FaultOverflow == "arithmetic overflow"

\* CPU::new without the byte 0x12 saved at 0x200
CPU_new_NoJump ==
    [ memory |-> Bus_new,
      buffer |-> GPU_clear,
      keys_down |-> [k \in 0..15 |-> FALSE],
      pc |-> ROM_BASE,
      i |-> 0,
      stack |-> << >>,
      delay_timer |-> 0,
      sound_timer |-> 0,
      v |-> [r \in 0..15 |-> 0],
      key_pressed |-> None,
      fault |-> FaultNone,
      ovf |-> FALSE ]

\* CPU::new
CPU_new ==
    [ memory |-> save_byte(Bus_new, ROM_BASE, \h12),
      buffer |-> GPU_clear,
      keys_down |-> [k \in 0..15 |-> FALSE],
      pc |-> ROM_BASE,
      i |-> 0,
      stack |-> << >>,
      delay_timer |-> 0,
      sound_timer |-> 0,
      v |-> [r \in 0..15 |-> 0],
      key_pressed |-> None,
      fault |-> FaultNone,
      ovf |-> FALSE ]

\* get_op: the big-endian opcode at pc
get_op(c) == read_byte(c.memory, c.pc) * 256 + read_byte(c.memory, c.pc + 1)

\* a timer that never runs down
decr_timer_Stuck(t) == t

\* decr_timers
decr_timer(t) == IF t > 0 THEN t - 1 ELSE t

\* skip one instruction: self.pc += 2
Skip(c, cond) ==
    IF cond
    THEN [c EXCEPT !.pc = Add16(c.pc, 2), !.ovf = c.ovf \/ Ovf16(c.pc, 2)]
    ELSE c

\* 00EE with unwrap_or(0): an empty stack yields address 0
op_00EE_Unchecked(c) ==
    IF c.stack = << >>
    THEN [c EXCEPT !.pc = 0]
    ELSE [c EXCEPT !.pc = c.stack[Len(c.stack)],
                   !.stack = SubSeq(c.stack, 1, Len(c.stack) - 1)]

\* 00EE returning to the oldest address on the stack
op_00EE_Oldest(c) ==
    IF c.stack = << >>
    THEN [c EXCEPT !.fault = FaultUnderflow]
    ELSE [c EXCEPT !.pc = c.stack[1], !.stack = Tail(c.stack)]

\* 00EE
op_00EE(c) ==
    IF c.stack = << >>
    THEN [c EXCEPT !.fault = FaultUnderflow]
    ELSE [c EXCEPT !.pc = c.stack[Len(c.stack)],
                   !.stack = SubSeq(c.stack, 1, Len(c.stack) - 1)]

\* 2NNN
op_2NNN(c, opcode) ==
    [c EXCEPT !.stack = Append(c.stack, c.pc), !.pc = NNN(opcode)]

\* 5XY0, matched on the top nibble alone
op_5XY0(c, opcode) == Skip(c, c.v[X(opcode)] = c.v[Y(opcode)])

\* 9XY0, matched on the top nibble alone
op_9XY0(c, opcode) == Skip(c, c.v[X(opcode)] # c.v[Y(opcode)])

\* the 8XY_ family with VF left alone by 8XY1, 8XY2 and 8XY3
op_8XY_KeepsFlag(c, opcode) ==
    LET x == X(opcode)
        y == Y(opcode)
        vx == c.v[x]
        vy == c.v[y]
        n == N(opcode)
    IN  IF n = 0 THEN [c EXCEPT !.v = [c.v EXCEPT ![x] = vy]]
        ELSE IF n = 1 THEN [c EXCEPT !.v = [c.v EXCEPT ![x] = BitOr(vx, vy)]]
        ELSE IF n = 2 THEN [c EXCEPT !.v = [c.v EXCEPT ![x] = BitAnd(vx, vy)]]
        ELSE IF n = 3 THEN [c EXCEPT !.v = [c.v EXCEPT ![x] = BitXor(vx, vy)]]
        ELSE IF n = 4 THEN
            [c EXCEPT !.v = [c.v EXCEPT ![x] = WrappingAdd8(vx, vy),
                                        ![15] = IF vx + vy > 255 THEN 1 ELSE 0]]
        ELSE IF n = 5 THEN
            [c EXCEPT !.v = [c.v EXCEPT ![x] = WrappingSub8(vx, vy),
                                        ![15] = IF vx >= vy THEN 1 ELSE 0]]
        ELSE IF n = 6 THEN
            [c EXCEPT !.v = [c.v EXCEPT ![x] = Shr8(vy), ![15] = vy % 2]]
        ELSE IF n = 7 THEN
            [c EXCEPT !.v = [c.v EXCEPT ![x] = WrappingSub8(vy, vx),
                                        ![15] = IF vy >= vx THEN 1 ELSE 0]]
        ELSE IF n = 14 THEN
            [c EXCEPT !.v = [c.v EXCEPT ![x] = Shl8(vy), ![15] = vy \div 128]]
        ELSE c

\* the 8XY_ family with 8XY4 writing the carry before the sum
op_8XY_SumLast(c, opcode) ==
    LET x == X(opcode)
        y == Y(opcode)
        vx == c.v[x]
        vy == c.v[y]
        n == N(opcode)
    IN  IF n = 0 THEN [c EXCEPT !.v = [c.v EXCEPT ![x] = vy]]
        ELSE IF n = 1 THEN [c EXCEPT !.v = [c.v EXCEPT ![x] = BitOr(vx, vy), ![15] = 0]]
        ELSE IF n = 2 THEN [c EXCEPT !.v = [c.v EXCEPT ![x] = BitAnd(vx, vy), ![15] = 0]]
        ELSE IF n = 3 THEN [c EXCEPT !.v = [c.v EXCEPT ![x] = BitXor(vx, vy), ![15] = 0]]
        ELSE IF n = 4 THEN
            [c EXCEPT !.v = [c.v EXCEPT ![15] = IF vx + vy > 255 THEN 1 ELSE 0,
                                        ![x] = WrappingAdd8(vx, vy)]]
        ELSE IF n = 5 THEN
            [c EXCEPT !.v = [c.v EXCEPT ![x] = WrappingSub8(vx, vy),
                                        ![15] = IF vx >= vy THEN 1 ELSE 0]]
        ELSE IF n = 6 THEN
            [c EXCEPT !.v = [c.v EXCEPT ![x] = Shr8(vy), ![15] = vy % 2]]
        ELSE IF n = 7 THEN
            [c EXCEPT !.v = [c.v EXCEPT ![x] = WrappingSub8(vy, vx),
                                        ![15] = IF vy >= vx THEN 1 ELSE 0]]
        ELSE IF n = 14 THEN
            [c EXCEPT !.v = [c.v EXCEPT ![x] = Shl8(vy), ![15] = vy \div 128]]
        ELSE c

\* the 8XY_ family with the flag of 8XY5 and 8XY7 taken after the subtraction
op_8XY_FlagAfter(c, opcode) ==
    LET x == X(opcode)
        y == Y(opcode)
        vx == c.v[x]
        vy == c.v[y]
        n == N(opcode)
    IN  IF n = 0 THEN [c EXCEPT !.v = [c.v EXCEPT ![x] = vy]]
        ELSE IF n = 1 THEN [c EXCEPT !.v = [c.v EXCEPT ![x] = BitOr(vx, vy), ![15] = 0]]
        ELSE IF n = 2 THEN [c EXCEPT !.v = [c.v EXCEPT ![x] = BitAnd(vx, vy), ![15] = 0]]
        ELSE IF n = 3 THEN [c EXCEPT !.v = [c.v EXCEPT ![x] = BitXor(vx, vy), ![15] = 0]]
        ELSE IF n = 4 THEN
            [c EXCEPT !.v = [c.v EXCEPT ![x] = WrappingAdd8(vx, vy),
                                        ![15] = IF vx + vy > 255 THEN 1 ELSE 0]]
        ELSE IF n = 5 THEN
            [c EXCEPT !.v = [c.v EXCEPT ![x] = WrappingSub8(vx, vy),
                                        ![15] = IF WrappingSub8(vx, vy) >= vy THEN 1 ELSE 0]]
        ELSE IF n = 6 THEN
            [c EXCEPT !.v = [c.v EXCEPT ![x] = Shr8(vy), ![15] = vy % 2]]
        ELSE IF n = 7 THEN
            [c EXCEPT !.v = [c.v EXCEPT ![x] = WrappingSub8(vy, vx),
                                        ![15] = IF vy >= WrappingSub8(vy, vx) THEN 1 ELSE 0]]
        ELSE IF n = 14 THEN
            [c EXCEPT !.v = [c.v EXCEPT ![x] = Shl8(vy), ![15] = vy \div 128]]
        ELSE c

\* the 8XY_ family with 8XY6 and 8XYE shifting VX in place
op_8XY_ShiftInPlace(c, opcode) ==
    LET x == X(opcode)
        y == Y(opcode)
        vx == c.v[x]
        vy == c.v[y]
        n == N(opcode)
    IN  IF n = 0 THEN [c EXCEPT !.v = [c.v EXCEPT ![x] = vy]]
        ELSE IF n = 1 THEN [c EXCEPT !.v = [c.v EXCEPT ![x] = BitOr(vx, vy), ![15] = 0]]
        ELSE IF n = 2 THEN [c EXCEPT !.v = [c.v EXCEPT ![x] = BitAnd(vx, vy), ![15] = 0]]
        ELSE IF n = 3 THEN [c EXCEPT !.v = [c.v EXCEPT ![x] = BitXor(vx, vy), ![15] = 0]]
        ELSE IF n = 4 THEN
            [c EXCEPT !.v = [c.v EXCEPT ![x] = WrappingAdd8(vx, vy),
                                        ![15] = IF vx + vy > 255 THEN 1 ELSE 0]]
        ELSE IF n = 5 THEN
            [c EXCEPT !.v = [c.v EXCEPT ![x] = WrappingSub8(vx, vy),
                                        ![15] = IF vx >= vy THEN 1 ELSE 0]]
        ELSE IF n = 6 THEN
            [c EXCEPT !.v = [c.v EXCEPT ![x] = Shr8(vx), ![15] = vx % 2]]
        ELSE IF n = 7 THEN
            [c EXCEPT !.v = [c.v EXCEPT ![x] = WrappingSub8(vy, vx),
                                        ![15] = IF vy >= vx THEN 1 ELSE 0]]
        ELSE IF n = 14 THEN
            [c EXCEPT !.v = [c.v EXCEPT ![x] = Shl8(vx), ![15] = vx \div 128]]
        ELSE c

\* the 8XY_ family
op_8XY(c, opcode) ==
    LET x == X(opcode)
        y == Y(opcode)
        vx == c.v[x]
        vy == c.v[y]
        n == N(opcode)
    IN  IF n = 0 THEN [c EXCEPT !.v = [c.v EXCEPT ![x] = vy]]
        ELSE IF n = 1 THEN [c EXCEPT !.v = [c.v EXCEPT ![x] = BitOr(vx, vy), ![15] = 0]]
        ELSE IF n = 2 THEN [c EXCEPT !.v = [c.v EXCEPT ![x] = BitAnd(vx, vy), ![15] = 0]]
        ELSE IF n = 3 THEN [c EXCEPT !.v = [c.v EXCEPT ![x] = BitXor(vx, vy), ![15] = 0]]
        ELSE IF n = 4 THEN
            [c EXCEPT !.v = [c.v EXCEPT ![x] = WrappingAdd8(vx, vy),
                                        ![15] = IF vx + vy > 255 THEN 1 ELSE 0]]
        ELSE IF n = 5 THEN
            [c EXCEPT !.v = [c.v EXCEPT ![x] = WrappingSub8(vx, vy),
                                        ![15] = IF vx >= vy THEN 1 ELSE 0]]
        ELSE IF n = 6 THEN
            [c EXCEPT !.v = [c.v EXCEPT ![x] = Shr8(vy), ![15] = vy % 2]]
        ELSE IF n = 7 THEN
            [c EXCEPT !.v = [c.v EXCEPT ![x] = WrappingSub8(vy, vx),
                                        ![15] = IF vy >= vx THEN 1 ELSE 0]]
        ELSE IF n = 14 THEN
            [c EXCEPT !.v = [c.v EXCEPT ![x] = Shl8(vy), ![15] = vy \div 128]]
        ELSE c

\* BNNN as NNN + V0
op_BNNN_V0(c, opcode) == [c EXCEPT !.pc = NNN(opcode) + c.v[0]]

\* BNNN: NNN + V[X]
op_BNNN(c, opcode) == [c EXCEPT !.pc = NNN(opcode) + c.v[X(opcode)]]

\* the rows of DXYN: for address in i..i + n
RECURSIVE DrawRows(_, _, _, _, _, _)
DrawRows(mem, buffer, x_coord, y_coord, address, count) ==
    IF count = 0
    THEN [buffer |-> buffer, collision |-> FALSE]
    ELSE LET d == draw_sprite_line(buffer, x_coord, y_coord, read_byte(mem, address))
             rest == DrawRows(mem, d.buffer, x_coord, y_coord + 1, address + 1, count - 1)
         IN  [buffer |-> rest.buffer, collision |-> d.collision \/ rest.collision]

\* op_DXYN.  When i + n overflows and wraps, the range i..i + n is empty.
op_DXYN(c, opcode) ==
    LET x_coord == BitAnd(c.v[X(opcode)], \h3f)
        y_coord == BitAnd(c.v[Y(opcode)], \h1f)
        n == N(opcode)
        over == Ovf16(c.i, n)
        d == DrawRows(c.memory, c.buffer, x_coord, y_coord, c.i, IF over THEN 0 ELSE n)
    IN  [c EXCEPT !.buffer = d.buffer,
                  !.v = [c.v EXCEPT ![15] = IF d.collision THEN 1 ELSE 0],
                  !.ovf = c.ovf \/ over]

\* the scan of keys_down returning the last key down instead of the first
FirstKeyDown_Last(keys) ==
    IF \E k \in 0..15 : keys[k]
    THEN CHOOSE k \in 0..15 : keys[k] /\ \A j \in (k + 1)..15 : ~keys[j]
    ELSE None

\* find_map over keys_down: the lowest key that is down
FirstKeyDown(keys) ==
    IF \E k \in 0..15 : keys[k]
    THEN CHOOSE k \in 0..15 : keys[k] /\ \A j \in 0..(k - 1) : ~keys[j]
    ELSE None

\* op_FX0A with the latch left set on completion
op_FX0A_KeepsLatch(c, x) ==
    LET r == [c EXCEPT !.pc = Sub16(c.pc, 2)]
    IN  IF r.key_pressed = None
        THEN [r EXCEPT !.key_pressed = FirstKeyDown(r.keys_down)]
        ELSE IF r.keys_down[r.key_pressed]
        THEN [r EXCEPT !.sound_timer = 4]
        ELSE IF r.sound_timer = 0
        THEN [r EXCEPT !.pc = Add16(r.pc, 2), !.v = [r.v EXCEPT ![x] = r.key_pressed]]
        ELSE r

\* op_FX0A with pc rewound only once a key is latched
op_FX0A_NoRewind(c, x) ==
    IF c.key_pressed = None
    THEN [c EXCEPT !.key_pressed = FirstKeyDown(c.keys_down)]
    ELSE IF c.keys_down[c.key_pressed]
    THEN [c EXCEPT !.pc = Sub16(c.pc, 2), !.sound_timer = 4]
    ELSE IF c.sound_timer = 0
    THEN [c EXCEPT !.v = [c.v EXCEPT ![x] = c.key_pressed], !.key_pressed = None]
    ELSE [c EXCEPT !.pc = Sub16(c.pc, 2)]

\* op_FX0A with no tone while the latched key is held
op_FX0A_NoTone(c, x) ==
    LET r == [c EXCEPT !.pc = Sub16(c.pc, 2), !.ovf = c.ovf \/ Udf16(c.pc, 2)]
    IN  IF r.key_pressed = None
        THEN [r EXCEPT !.key_pressed = FirstKeyDown(r.keys_down)]
        ELSE IF r.keys_down[r.key_pressed]
        THEN r
        ELSE IF r.sound_timer = 0
        THEN [r EXCEPT !.pc = Add16(r.pc, 2),
                       !.ovf = r.ovf \/ Ovf16(r.pc, 2),
                       !.v = [r.v EXCEPT ![x] = r.key_pressed],
                       !.key_pressed = None]
        ELSE r

\* op_FX0A with the latch taken again from the keys while a key is held
op_FX0A_Relatches(c, x) ==
    LET r == [c EXCEPT !.pc = Sub16(c.pc, 2), !.ovf = c.ovf \/ Udf16(c.pc, 2)]
    IN  IF r.key_pressed = None
        THEN [r EXCEPT !.key_pressed = FirstKeyDown(r.keys_down)]
        ELSE IF r.keys_down[r.key_pressed]
        THEN [r EXCEPT !.sound_timer = 4,
                       !.key_pressed = FirstKeyDown(r.keys_down)]
        ELSE IF r.sound_timer = 0
        THEN [r EXCEPT !.pc = Add16(r.pc, 2),
                       !.ovf = r.ovf \/ Ovf16(r.pc, 2),
                       !.v = [r.v EXCEPT ![x] = r.key_pressed],
                       !.key_pressed = None]
        ELSE r

\* op_FX0A completing while the latched key is still down
op_FX0A_OnPress(c, x) ==
    LET r == [c EXCEPT !.pc = Sub16(c.pc, 2), !.ovf = c.ovf \/ Udf16(c.pc, 2)]
    IN  IF r.key_pressed = None
        THEN [r EXCEPT !.key_pressed = FirstKeyDown(r.keys_down)]
        ELSE IF r.keys_down[r.key_pressed]
        THEN [r EXCEPT !.pc = Add16(r.pc, 2),
                       !.ovf = r.ovf \/ Ovf16(r.pc, 2),
                       !.v = [r.v EXCEPT ![x] = r.key_pressed],
                       !.key_pressed = None]
        ELSE IF r.sound_timer = 0
        THEN [r EXCEPT !.pc = Add16(r.pc, 2),
                       !.ovf = r.ovf \/ Ovf16(r.pc, 2),
                       !.v = [r.v EXCEPT ![x] = r.key_pressed],
                       !.key_pressed = None]
        ELSE r

\* op_FX0A
op_FX0A(c, x) ==
    LET r == [c EXCEPT !.pc = Sub16(c.pc, 2), !.ovf = c.ovf \/ Udf16(c.pc, 2)]
    IN  IF r.key_pressed = None
        THEN [r EXCEPT !.key_pressed = FirstKeyDown(r.keys_down)]
        ELSE IF r.keys_down[r.key_pressed]
        THEN [r EXCEPT !.sound_timer = 4]
        ELSE IF r.sound_timer = 0
        THEN [r EXCEPT !.pc = Add16(r.pc, 2),
                       !.ovf = r.ovf \/ Ovf16(r.pc, 2),
                       !.v = [r.v EXCEPT ![x] = r.key_pressed],
                       !.key_pressed = None]
        ELSE r

\* FX29
op_FX29(c, x) == [c EXCEPT !.i = \h50 + BitAnd(c.v[x], \hf)]

\* FX33
op_FX33(c, x) ==
    LET vx == c.v[x]
        m1 == save_byte(c.memory, c.i, vx \div 100)
        m2 == save_byte(m1, Add16(c.i, 1), (vx \div 10) % 10)
        m3 == save_byte(m2, Add16(c.i, 2), vx % 10)
    IN  [c EXCEPT !.memory = m3, !.ovf = c.ovf \/ Ovf16(c.i, 2)]

\* FX55: for n in 0..x + 1 { save_byte(i, v[n]); i += 1 }
RECURSIVE op_FX55(_, _, _)
op_FX55(c, n, x) ==
    IF n > x THEN c
    ELSE op_FX55([c EXCEPT !.memory = save_byte(c.memory, c.i, c.v[n]),
                           !.i = Add16(c.i, 1),
                           !.ovf = c.ovf \/ Ovf16(c.i, 1)], n + 1, x)

\* FX65: for n in 0..x + 1 { v[n] = read_byte(i); i += 1 }
RECURSIVE op_FX65(_, _, _)
op_FX65(c, n, x) ==
    IF n > x THEN c
    ELSE op_FX65([c EXCEPT !.v = [c.v EXCEPT ![n] = read_byte(c.memory, c.i)],
                           !.i = Add16(c.i, 1),
                           !.ovf = c.ovf \/ Ovf16(c.i, 1)], n + 1, x)

\* the EX__ family
op_EX(c, opcode) ==
    LET vx == c.v[X(opcode)]
    IN  IF NN(opcode) = \h9e THEN Skip(c, c.keys_down[vx % 16])
        ELSE IF NN(opcode) = \ha1 THEN Skip(c, ~c.keys_down[vx % 16])
        ELSE c

\* the FX__ family
op_FX(c, opcode) ==
    LET x == X(opcode)
        nn == NN(opcode)
    IN  IF nn = \h07 THEN [c EXCEPT !.v = [c.v EXCEPT ![x] = c.delay_timer]]
        ELSE IF nn = \h0a THEN op_FX0A(c, x)
        ELSE IF nn = \h15 THEN [c EXCEPT !.delay_timer = c.v[x]]
        ELSE IF nn = \h18 THEN [c EXCEPT !.sound_timer = c.v[x]]
        ELSE IF nn = \h1e THEN [c EXCEPT !.i = Add16(c.i, c.v[x]),
                                         !.ovf = c.ovf \/ Ovf16(c.i, c.v[x])]
        ELSE IF nn = \h29 THEN op_FX29(c, x)
        ELSE IF nn = \h33 THEN op_FX33(c, x)
        ELSE IF nn = \h55 THEN op_FX55(c, 0, x)
        ELSE IF nn = \h65 THEN op_FX65(c, 0, x)
        ELSE c

\* the match of tick with 7XNN leaving its carry in VF
execute_AddSetsCarry(c, opcode, salt) ==
    LET t == Top(opcode)
        x == X(opcode)
    IN  IF t = 0 THEN
            IF NNN(opcode) = \h0e0 THEN [c EXCEPT !.buffer = GPU_clear]
            ELSE IF NNN(opcode) = \h0ee THEN op_00EE(c)
            ELSE c
        ELSE IF t = 1 THEN [c EXCEPT !.pc = NNN(opcode)]
        ELSE IF t = 2 THEN op_2NNN(c, opcode)
        ELSE IF t = 3 THEN Skip(c, c.v[x] = NN(opcode))
        ELSE IF t = 4 THEN Skip(c, c.v[x] # NN(opcode))
        ELSE IF t = 5 THEN op_5XY0(c, opcode)
        ELSE IF t = 6 THEN [c EXCEPT !.v = [c.v EXCEPT ![x] = NN(opcode)]]
        ELSE IF t = 7 THEN
            [c EXCEPT !.v = [c.v EXCEPT ![x] = WrappingAdd8(c.v[x], NN(opcode)),
                                        ![15] = IF c.v[x] + NN(opcode) > 255 THEN 1 ELSE 0]]
        ELSE IF t = 8 THEN op_8XY(c, opcode)
        ELSE IF t = 9 THEN op_9XY0(c, opcode)
        ELSE IF t = 10 THEN [c EXCEPT !.i = NNN(opcode)]
        ELSE IF t = 11 THEN op_BNNN(c, opcode)
        ELSE IF t = 12 THEN [c EXCEPT !.v = [c.v EXCEPT ![x] = BitAnd(salt, NN(opcode))]]
        ELSE IF t = 13 THEN op_DXYN(c, opcode)
        ELSE IF t = 14 THEN op_EX(c, opcode)
        ELSE op_FX(c, opcode)

\* the match of tick on the opcode, pc already advanced; salt is the byte
\* rand::random() returns
execute(c, opcode, salt) ==
    LET t == Top(opcode)
        x == X(opcode)
    IN  IF t = 0 THEN
            IF NNN(opcode) = \h0e0 THEN [c EXCEPT !.buffer = GPU_clear]
            ELSE IF NNN(opcode) = \h0ee THEN op_00EE(c)
            ELSE c
        ELSE IF t = 1 THEN [c EXCEPT !.pc = NNN(opcode)]
        ELSE IF t = 2 THEN op_2NNN(c, opcode)
        ELSE IF t = 3 THEN Skip(c, c.v[x] = NN(opcode))
        ELSE IF t = 4 THEN Skip(c, c.v[x] # NN(opcode))
        ELSE IF t = 5 THEN op_5XY0(c, opcode)
        ELSE IF t = 6 THEN [c EXCEPT !.v = [c.v EXCEPT ![x] = NN(opcode)]]
        ELSE IF t = 7 THEN [c EXCEPT !.v = [c.v EXCEPT ![x] = WrappingAdd8(c.v[x], NN(opcode))]]
        ELSE IF t = 8 THEN op_8XY(c, opcode)
        ELSE IF t = 9 THEN op_9XY0(c, opcode)
        ELSE IF t = 10 THEN [c EXCEPT !.i = NNN(opcode)]
        ELSE IF t = 11 THEN op_BNNN(c, opcode)
        ELSE IF t = 12 THEN [c EXCEPT !.v = [c.v EXCEPT ![x] = BitAnd(salt, NN(opcode))]]
        ELSE IF t = 13 THEN op_DXYN(c, opcode)
        ELSE IF t = 14 THEN op_EX(c, opcode)
        ELSE op_FX(c, opcode)

\* tick with the timers run down after every instruction
tick_TimersPerInstruction(c, salt) ==
    LET opcode == get_op(c)
        fetched == [c EXCEPT !.pc = Add16(c.pc, 2),
                             !.ovf = Ovf16(c.pc, 1) \/ Ovf16(c.pc, 2)]
        r == execute(fetched, opcode, salt)
    IN  [r EXCEPT !.delay_timer = decr_timer(r.delay_timer),
                  !.sound_timer = decr_timer(r.sound_timer)]

\* tick: fetch, advance pc by 2, dispatch
tick(c, salt) ==
    LET opcode == get_op(c)
        fetched == [c EXCEPT !.pc = Add16(c.pc, 2),
                             !.ovf = Ovf16(c.pc, 1) \/ Ovf16(c.pc, 2)]
    IN  execute(fetched, opcode, salt)

(***************************************************************************)
(* Inputs: the bytes rand::random() may return, the programs the host may  *)
(* load (as 16-bit opcodes), and the key snapshots the host may observe.   *)
(***************************************************************************)
Salts == {\h00, \h01, \h0A, \hFF}

Programs ==
    << \* FX29 on a random digit, then FX33 and FX55 at the glyph address
       << \hC0FF, \hF029, \hF033, \hF055, \h1208 >>,
       \* FX0A with the sound timer at 0..3
       << \hC003, \hF018, \hF10A, \h1206 >>,
       \* FX0A as the first instruction, into V3
       << \hF30A, \h7301, \h1204 >>,
       \* FX15, FX07 and FX18
       << \hC003, \hF015, \hF107, \hF118, \h1208 >>,
       \* call, return, then a return on the empty stack
       << \h2204, \h00EE, \h00EE >>,
       \* patterns outside the opcode table
       << \hC001, \hC101, \h0123, \h8018, \hE0FF, \hF0FF, \h5011, \h9012,
          \h1210, \h1212 >>,
       \* 1200 stored at 0x0F0, then BFFF with VF = 0xF1 jumps to 0x10F0
       << \h6FF1, \hA0F0, \h6012, \h6100, \hF155, \hBFFF >>,
       \* arithmetic and logic on random operands
       << \hC0FF, \hC1FF, \h8011, \h8102, \h8013, \h8014, \h8105, \h8016,
          \h8017, \h810E, \h8F14, \h70FF, \h3000, \h4100, \h1218, \h121A >>,
       \* 1200 stored at 0x000, then execution runs off the end of memory
       << \hA000, \h6012, \h6100, \hF155, \h1FFE >>,
       \* a glyph drawn twice at a random place, then the display cleared
       << \hC03F, \hC11F, \hF029, \hD015, \hD015, \h00E0, \hE09E, \hE1A1,
          \h1210, \h1212 >>,
       \* BCD and register store/load
       << \hC0FF, \hA300, \hF033, \hF265, \hF01E, \hF155, \h120C >>,
       \* 0xFF stored at 0xFFF, then I raised from 0x1000 by 0xFF, 8 times a
       \* pass for 30 passes, and by 0xEF to 0xFFFF: I + N of DXYN and I + 1 of
       \* FX33 pass 0xFFFF, and so does, after a jump on a random V2 in
       \* {0, 2, 6}, the first of FX55, FX65 and FX1E that is executed
       << \hAFFF, \h60FF, \hF055, \h61E2,
          \hF01E, \hF01E, \hF01E, \hF01E, \hF01E, \hF01E, \hF01E, \hF01E,
          \h7101, \h3100, \h1208, \h62EF, \hF21E, \hD111, \hF033,
          \hC206, \hB22A, \hF055, \hF065, \h6300, \hF01E, \h1232 >>,
       \* DXYN with X = Y = F: two rows of glyph 0 at (63, 31), twice; N = 0
       << \hA050, \h6F3F, \hDFF2, \h6F3F, \hDFF2, \h6F01, \hD0F0, \h120E >>,
       \* the 8XY_ family with X = F or Y = F, VF set beforehand
       << \hC0FF, \h6F0A, \h80F1, \h6F0A, \h80F2, \h6F03, \h80F3,
          \h6FFF, \h8F01, \h6FFF, \h8FF2, \h6FFF, \h8F03,
          \hC0FF, \h6FFF, \h80F4, \h6FFF, \h8F04, \h6F80, \h8FF4,
          \hC0FF, \h6F80, \h8F05, \h6F01, \h80F5, \h8FF5,
          \hC0FF, \h6F80, \h8F07, \h6F01, \h80F7, \h8FF7, \h1240 >>,
       \* 8XY6 and 8XYE with X or Y = F, 7XNN past 0xFF, and all 16 registers
       \* stored and loaded
       << \hC1FF, \h60AA, \h8016, \h801E, \h6F03, \h80F6, \h6F81, \h80FE,
          \h6F81, \h8FF6, \h6F81, \h8FFE, \h8F16, \h8F1E,
          \h60FF, \h6F05, \h7001, \h7102, \hA300, \hFF55, \h6F00, \h6100,
          \hA300, \hFF65, \h1230 >>,
       \* a call within a call, and the two returns
       << \h2204, \h1202, \h2208, \h00EE, \h00EE >> >>

\* the image of a program: each opcode as two bytes, big-endian
RECURSIVE RomBytes(_)
RomBytes(ops) ==
    IF ops = << >> THEN << >>
    ELSE << ops[1] \div 256, ops[1] % 256 >> \o RomBytes(Tail(ops))

Roms == {RomBytes(Programs[p]) : p \in 1..Len(Programs)}

\* the keys_down snapshots: any set of the keys 0..MaxKey
KeySnapshots ==
    {[k \in 0..15 |-> k \in down] : down \in SUBSET (0..MaxKey)}

(***************************************************************************)
(* State: the machine the host owns (TemplateApp.chip8), the position of   *)
(* the host in its frame (eframe::App::update), and the last call made     *)
(* directly on a public method of the bus or of the display, with its      *)
(* arguments, the contents it found and its result.                        *)
(***************************************************************************)
VARIABLES
    chip8,       \* the machine
    host_pc,     \* "proc_input", "update_emu_state" or "ticks"
    ticks_left,  \* the iterations left of the loop of ticks
    loads,       \* the programs loaded so far
    call         \* the last direct call on chip8.bus or chip8.bus.gpu

vars == << chip8, host_pc, ticks_left, loads, call >>

\* no direct call yet
NoCall == [op |-> "none"]

Init ==
    /\ chip8 = CPU_new
    /\ host_pc = "proc_input"
    /\ ticks_left = 0
    /\ loads = 0
    /\ call = NoCall

\* proc_input: keys_down is overwritten from the input state
ProcInput ==
    /\ host_pc = "proc_input"
    /\ chip8.fault = FaultNone
    /\ \E keys \in KeySnapshots : chip8' = [chip8 EXCEPT !.keys_down = keys]
    /\ host_pc' = "update_emu_state"
    /\ UNCHANGED << ticks_left, loads, call >>

\* update_emu_state: one more pass of the while loop calls ticks
BeginTicks ==
    /\ host_pc = "update_emu_state"
    /\ chip8.fault = FaultNone
    /\ \E n \in 0..MaxTicks : ticks_left' = n
    /\ host_pc' = "ticks"
    /\ UNCHANGED << chip8, loads, call >>

\* the outcome of one instruction: a panic leaves a dead machine
TickOutcome(c, salt, checks) ==
    LET r == tick(c, salt)
    IN  IF r.fault # FaultNone THEN [c EXCEPT !.fault = r.fault]
        ELSE IF r.ovf /\ checks THEN [c EXCEPT !.fault = FaultOverflow]
        ELSE [r EXCEPT !.ovf = FALSE]

\* one iteration of the loop of ticks
Tick ==
    /\ host_pc = "ticks"
    /\ chip8.fault = FaultNone
    /\ ticks_left > 0
    /\ Top(get_op(chip8)) = 2 => Len(chip8.stack) < MaxStack
    /\ \E salt \in Salts, checks \in BOOLEAN :
           chip8' = TickOutcome(chip8, salt, checks)
    /\ ticks_left' = ticks_left - 1
    /\ UNCHANGED << host_pc, loads, call >>

\* decr_timers
decr_timers(c) ==
    [c EXCEPT !.delay_timer = decr_timer(c.delay_timer),
              !.sound_timer = decr_timer(c.sound_timer)]

\* the end of ticks: the loop is over, decr_timers runs
DecrTimers ==
    /\ host_pc = "ticks"
    /\ chip8.fault = FaultNone
    /\ ticks_left = 0
    /\ chip8' = decr_timers(chip8)
    /\ host_pc' = "update_emu_state"
    /\ UNCHANGED << ticks_left, loads, call >>

\* load_roms_menu: a new machine, the program loaded into it
LoadedMachine(rom) == [CPU_new EXCEPT !.memory = load_rom(CPU_new.memory, rom)]

\* the machines the host can construct from the programs
LoadedMachines == {LoadedMachine(rom) : rom \in Roms}

LoadRom ==
    /\ host_pc = "update_emu_state"
    /\ chip8.fault = FaultNone
    /\ loads < MaxLoads
    /\ chip8' \in LoadedMachines
    /\ loads' = loads + 1
    /\ host_pc' = "proc_input"
    /\ UNCHANGED << ticks_left, call >>

\* the frame ends with no program chosen in the menu
EndFrame ==
    /\ host_pc = "update_emu_state"
    /\ chip8.fault = FaultNone
    /\ host_pc' = "proc_input"
    /\ UNCHANGED << chip8, ticks_left, loads, call >>

Next ==
    \/ ProcInput
    \/ BeginTicks
    \/ Tick
    \/ DecrTimers
    \/ LoadRom
    \/ EndFrame

Spec == Init /\ [][Next]_vars

\* the programs that wait for a key
KeyWaitRoms == {rom \in Roms : \E a \in 1..(Len(rom) - 1) :
                    a % 2 = 1 /\ rom[a] \div 16 = 15 /\ rom[a + 1] = \h0a}

KeyWaitMachines == {LoadedMachine(rom) : rom \in KeyWaitRoms}

\* load_roms_menu, the program chosen being one that waits for a key
LoadKeyWaitRom ==
    /\ host_pc = "update_emu_state"
    /\ chip8.fault = FaultNone
    /\ loads < MaxLoads
    /\ chip8' \in KeyWaitMachines
    /\ loads' = loads + 1
    /\ host_pc' = "proc_input"
    /\ UNCHANGED << ticks_left, call >>

KeyWaitNext ==
    \/ ProcInput
    \/ BeginTicks
    \/ Tick
    \/ DecrTimers
    \/ LoadKeyWaitRom
    \/ EndFrame

\* a pass of the while loop that runs a batch of at least one instruction
RunBatch == BeginTicks /\ ticks_left' >= 1

\* the machine running a program that waits for a key, under a host that keeps
\* presenting frames and keeps running batches of at least one instruction; a
\* batch once begun runs to its end
LiveSpec ==
    /\ Init
    /\ [][KeyWaitNext]_vars
    /\ WF_vars(ProcInput)
    /\ SF_vars(RunBatch)
    /\ WF_vars(Tick)
    /\ WF_vars(DecrTimers)

(***************************************************************************)
(* The bus called directly: save_byte and read_byte are public methods of  *)
(* the public field chip8.bus, and take any u16 address.                   *)
(***************************************************************************)
\* the addresses tried are a cell address plus 0..MaxWrap times the memory
\* size, and the highest u16
MaxWrap == 2

CellAddresses == {\h000, \h050, \hFFF}

Addresses ==
    {a + MEMORY_SIZE * k : a \in CellAddresses, k \in 0..MaxWrap} \cup {\hFFFF}

DataBytes == {\h00, \h5A, \hFF}

\* chip8.bus.save_byte(address, data)
SaveByte ==
    \E address \in Addresses, data \in DataBytes :
        /\ call' = [op |-> "save_byte", address |-> address, data |-> data,
                    before |-> chip8.memory]
        /\ chip8' = [chip8 EXCEPT !.memory = save_byte(chip8.memory, address, data)]
        /\ UNCHANGED << host_pc, ticks_left, loads >>

\* chip8.bus.read_byte(address)
ReadByte ==
    \E address \in Addresses :
        /\ call' = [op |-> "read_byte", address |-> address,
                    before |-> chip8.memory,
                    result |-> read_byte(chip8.memory, address)]
        /\ UNCHANGED << chip8, host_pc, ticks_left, loads >>

BusNext ==
    \/ SaveByte
    \/ ReadByte

BusSpec == Init /\ [][BusNext]_vars

(***************************************************************************)
(* The display called directly: draw_sprite_line and clear are public      *)
(* methods of chip8.bus.gpu.  x is a column 0..63, as the CPU passes it;   *)
(* y is any u8.                                                            *)
(***************************************************************************)
Columns == {0, 56, 57, 63}

Rows == {31, 32, 255}

SpriteBytes == {\h00, \h01, \hFF}

\* chip8.bus.gpu.draw_sprite_line(x, y, sprite_data)
DrawSpriteLine ==
    \E x \in Columns, y \in Rows, sprite_data \in SpriteBytes :
        LET d == draw_sprite_line(chip8.buffer, x, y, sprite_data)
        IN  /\ call' = [op |-> "draw_sprite_line", x |-> x, y |-> y,
                        sprite_data |-> sprite_data,
                        before |-> chip8.buffer, result |-> d.collision]
            /\ chip8' = [chip8 EXCEPT !.buffer = d.buffer]
            /\ UNCHANGED << host_pc, ticks_left, loads >>

\* chip8.bus.gpu.clear()
Clear ==
    /\ call' = [op |-> "clear", before |-> chip8.buffer]
    /\ chip8' = [chip8 EXCEPT !.buffer = GPU_clear]
    /\ UNCHANGED << host_pc, ticks_left, loads >>

GpuNext ==
    \/ DrawSpriteLine
    \/ Clear

GpuSpec == Init /\ [][GpuNext]_vars

(***************************************************************************)
(* A program chosen in the menu: load_roms_menu constructs a new machine   *)
(* and calls chip8.bus.load_rom on it with the bytes of the image.  The    *)
(* images tried are every sequence of at most MaxImage bytes, and one      *)
(* image that fills memory to its last cell.                               *)
(***************************************************************************)
MaxImage == 4

ImageBytes == {\h00, \h12, \hFF}

RECURSIVE ImagesOfLen(_)
ImagesOfLen(n) ==
    IF n = 0 THEN {<< >>}
    ELSE {Append(image, b) : image \in ImagesOfLen(n - 1), b \in ImageBytes}

Images ==
    UNION {ImagesOfLen(n) : n \in 0..MaxImage}
        \cup {[k \in 1..(MEMORY_SIZE - ROM_BASE) |-> \hFF]}

\* self.chip8 = Cpu::new(); self.chip8.bus.load_rom(bindata)
ImageLoads ==
    {[source |-> bindata, machine |-> LoadedMachine(bindata)] :
        bindata \in Images}

LoadImage ==
    \E load \in ImageLoads :
        /\ call' = [op |-> "load_rom", source |-> load.source]
        /\ chip8' = load.machine
        /\ UNCHANGED << host_pc, ticks_left, loads >>

LoadNext ==
    \/ LoadImage

LoadSpec == Init /\ [][LoadNext]_vars

TypeOK ==
    /\ chip8.pc \in 0..65535
    /\ chip8.i \in 0..65535
    /\ \A r \in 0..15 : chip8.v[r] \in 0..255
    /\ chip8.delay_timer \in 0..255
    /\ chip8.sound_timer \in 0..255
    /\ chip8.key_pressed \in {None} \cup (0..15)
    /\ host_pc \in {"proc_input", "update_emu_state", "ticks"}
    /\ ticks_left \in 0..MaxTicks
    /\ loads \in 0..MaxLoads

(***************************************************************************)
(* Vocabulary of the properties.                                           *)
(***************************************************************************)
\* the next step, if any, executes the instruction at pc
Executing == host_pc = "ticks" /\ ticks_left > 0 /\ chip8.fault = FaultNone

\* the opcode at pc
CurOp == get_op(chip8)

\* the opcode is FXnn for the given nn
IsFX(opcode, nn) == Top(opcode) = 15 /\ NN(opcode) = nn

\* the opcode just before pc
PrevOp == IF chip8.pc >= 2 THEN get_op([chip8 EXCEPT !.pc = chip8.pc - 2]) ELSE 0

NoKeyDown == \A k \in 0..15 : ~chip8.keys_down[k]

FontCells == FONT_BASE..(FONT_BASE + 79)

FontIntact == \A a \in FontCells : chip8.memory[a] = FONT_BYTES[a - FONT_BASE + 1]

(***************************************************************************)
(* C1: FX29 sets I to the glyph address scaled by 5 bytes per glyph:       *)
(* after FX29, I = 0x50 + (VX AND 0xF) * 5, and no general register is     *)
(* modified.                                                               *)
(***************************************************************************)
C1_FX29ScalesByFive ==
    [][(Executing /\ IsFX(CurOp, \h29))
        => /\ chip8'.i = \h50 + BitAnd(chip8.v[X(CurOp)], \hf) * 5
           /\ chip8'.v = chip8.v]_vars

(***************************************************************************)
(* C2: FX0A completes on the first execution at which the latched key is   *)
(* observed released, whatever the timer values are: PC moves past the     *)
(* instruction, VX = k and the latch is cleared.                           *)
(***************************************************************************)
C2_CompletesOnRelease ==
    [][(/\ Executing
        /\ IsFX(CurOp, \h0a)
        /\ chip8.key_pressed # None
        /\ ~chip8.keys_down[chip8.key_pressed])
        => /\ chip8'.pc = chip8.pc + 2
           /\ chip8'.v[X(CurOp)] = chip8.key_pressed
           /\ chip8'.key_pressed = None]_vars

\* C2 as amended: FX0A completes on the first execution at which the latched
\* key is released and the sound timer is 0: PC moves past the instruction,
\* VX = k and the latch is cleared; while the sound timer is not 0 the
\* instruction stays blocked and the machine is unchanged.
C2_CompletesOnReleaseWhenSilent ==
    [][(/\ Executing
        /\ IsFX(CurOp, \h0a)
        /\ chip8.key_pressed # None
        /\ ~chip8.keys_down[chip8.key_pressed])
        => IF chip8.sound_timer = 0
           THEN /\ chip8'.pc = chip8.pc + 2
                /\ chip8'.v = [chip8.v EXCEPT ![X(CurOp)] = chip8.key_pressed]
                /\ chip8'.key_pressed = None
                /\ chip8'.sound_timer = 0
           ELSE chip8' = chip8]_vars

\* FX0A has completed with key 1 in a register that held 0 until then
C2_Witness ==
    /\ chip8.fault = FaultNone
    /\ IsFX(PrevOp, \h0a)
    /\ chip8.v[X(PrevOp)] = 1
    /\ chip8.key_pressed = None
    /\ ~chip8.keys_down[1]

(***************************************************************************)
(* C4: FX0A with no key latched and no key down blocks: the execution      *)
(* leaves PC at the FX0A instruction and the registers, I, the stack,      *)
(* memory, the display, both timers and the latch unchanged.               *)
(***************************************************************************)
C4_BlocksWithNoKey ==
    [][(/\ Executing
        /\ IsFX(CurOp, \h0a)
        /\ chip8.key_pressed = None
        /\ NoKeyDown)
        => chip8' = chip8]_vars

\* a batch has run to its end with the machine blocked at FX0A
C4_Witness ==
    /\ host_pc = "ticks"
    /\ ticks_left = 0
    /\ chip8.fault = FaultNone
    /\ IsFX(CurOp, \h0a)
    /\ chip8.key_pressed = None
    /\ NoKeyDown

(***************************************************************************)
(* C3: FX0A eventually completes: when the machine is at an FX0A           *)
(* instruction and a key k is down during a batch, FX0A latches k; and     *)
(* once k is latched and every key is up from then on, with the host       *)
(* running batches of at least one instruction and loading no other        *)
(* program, PC eventually moves past the instruction with VX = k and the   *)
(* latch empty.                                                            *)
(***************************************************************************)
C3_KeySeen(k) ==
    /\ Executing
    /\ IsFX(CurOp, \h0a)
    /\ chip8.key_pressed = None
    /\ FirstKeyDown(chip8.keys_down) = k

C3_Latched(k) ==
    /\ chip8.fault = FaultNone
    /\ IsFX(CurOp, \h0a)
    /\ chip8.key_pressed = k

C3_Done(k) ==
    /\ chip8.fault = FaultNone
    /\ IsFX(PrevOp, \h0a)
    /\ chip8.v[X(PrevOp)] = k
    /\ chip8.key_pressed = None

WritesTimer(opcode) ==
    IsFX(opcode, \h15) \/ IsFX(opcode, \h18) \/ IsFX(opcode, \h0a)

Timers == << chip8.delay_timer, chip8.sound_timer >>

Floor0(t) == IF t - 1 > 0 THEN t - 1 ELSE 0

C5_TimersOncePerBatch ==
    [][/\ (Executing /\ ~WritesTimer(CurOp))
            => /\ Timers' = Timers
               /\ ticks_left' = ticks_left - 1
               /\ host_pc' = "ticks"
       /\ (host_pc = "ticks" /\ ticks_left = 0)
            => /\ chip8'.delay_timer = Floor0(chip8.delay_timer)
               /\ chip8'.sound_timer = Floor0(chip8.sound_timer)
               /\ host_pc' # "ticks"
       /\ (host_pc # "ticks" /\ host_pc' = "ticks")
            => /\ chip8' = chip8
               /\ ticks_left' \in 0..MaxTicks]_vars

\* a batch is over and the delay timer, set from V0 = 3, has lost one
C5_Witness ==
    /\ host_pc = "update_emu_state"
    /\ IsFX(PrevOp, \h15)
    /\ chip8.v[X(PrevOp)] = 3
    /\ chip8.delay_timer = 2

(***************************************************************************)
(* C6: a newly constructed machine is in the documented initial state:     *)
(* every memory byte is 0 except the 80 font bytes at 0x50..0x9F, all      *)
(* registers and I are 0, PC = 0x200, the stack is empty, both timers are  *)
(* 0, no key is latched and all 32 display rows are 0.                     *)
(***************************************************************************)
FreshRegisters ==
    /\ \A r \in 0..15 : chip8.v[r] = 0
    /\ chip8.i = 0
    /\ chip8.pc = \h200
    /\ chip8.stack = << >>
    /\ chip8.delay_timer = 0
    /\ chip8.sound_timer = 0
    /\ chip8.key_pressed = None
    /\ \A r \in 0..31 : chip8.buffer[r] = {}

C6_FreshMachineAllZero ==
    loads = 0 =>
        /\ \A a \in 0..4095 :
               chip8.memory[a] =
                   IF a \in FontCells THEN FONT_BYTES[a - \h50 + 1] ELSE 0
        /\ FreshRegisters

\* C6 as amended: in a newly constructed machine every memory byte is 0 except
\* the 80 font bytes at 0x50..0x9F and the byte 0x12 at 0x200; the registers,
\* I, PC, the stack, the timers, the latch and the display are as documented.
C6_FreshMachine ==
    loads = 0 =>
        /\ \A a \in 0..4095 :
               chip8.memory[a] =
                   IF a \in FontCells THEN FONT_BYTES[a - \h50 + 1]
                   ELSE IF a = \h200 THEN \h12
                   ELSE 0
        /\ FreshRegisters

\* the machine as constructed, no program loaded, no frame begun
C6_Witness ==
    /\ loads = 0
    /\ host_pc = "proc_input"
    /\ NoKeyDown
    /\ chip8.memory[\h200] = \h12
    /\ chip8.memory[\h9F] = \h80

(***************************************************************************)
(* C7: PC is always a valid memory address: in every reachable state PC    *)
(* is in 0..4095.                                                          *)
(***************************************************************************)
C7_PcInMemory == chip8.pc \in 0..4095

\* C7 as amended: PC, a 16-bit value, is in 0..4095 and so is every return
\* address on the stack, until BNNN jumps to NNN + VX > 4095 or an instruction
\* in the last four bytes of memory (PC >= 0xFFC) executes; from then on PC may
\* exceed 4095 and stays below 65536.
PcAndStackInMemory ==
    /\ chip8.pc \in 0..4095
    /\ \A d \in 1..Len(chip8.stack) : chip8.stack[d] \in 0..4095

LeavesMemory ==
    /\ Executing
    /\ \/ Top(CurOp) = 11 /\ (CurOp % 4096) + chip8.v[X(CurOp)] > 4095
       \/ chip8.pc >= \hFFC

C7_PcLeavesMemoryOnlyByJumpOrEnd ==
    [][/\ (PcAndStackInMemory /\ ~LeavesMemory) => PcAndStackInMemory'
       /\ chip8'.pc \in 0..65535]_vars

\* a call has run: PC and the return address are in memory
C7_Witness ==
    /\ host_pc = "ticks"
    /\ chip8.pc = \h204
    /\ chip8.stack = << \h202 >>

(***************************************************************************)
(* C8: the font table is never mutated after construction: in every        *)
(* reachable state memory bytes 0x50..0x9F equal the 80-byte font table.   *)
(***************************************************************************)
C8_FontNeverMutated == FontIntact

\* C8 as amended: the font table is intact on construction and after a program
\* load, and stays intact across every step except the execution of an FX33 or
\* FX55 that writes a cell in 0x50..0x9F (I..I+2, resp. I..I+X, modulo 4096).
StoreCells ==
    IF IsFX(CurOp, \h33) THEN {(chip8.i + d) % 4096 : d \in 0..2}
    ELSE IF IsFX(CurOp, \h55) THEN {(chip8.i + d) % 4096 : d \in 0..X(CurOp)}
    ELSE {}

C8_FontMutatedOnlyByStores ==
    /\ FontIntact
    /\ [][/\ (FontIntact /\ ~(Executing /\ StoreCells \cap FontCells # {}))
               => FontIntact'
          /\ loads' # loads => FontIntact']_vars

\* FX33 has stored the digits of 255 outside the font, which is intact
C8_Witness ==
    /\ FontIntact
    /\ IsFX(PrevOp, \h33)
    /\ chip8.i = \h300
    /\ chip8.memory[\h300] = 2
    /\ chip8.memory[\h302] = 5

(***************************************************************************)
(* C9: every opcode outside the documented table is a recoverable no-op:   *)
(* 0NNN other than 00E0/00EE, 5XYn and 9XYn with n # 0, 8XYn with n in     *)
(* {8..D, F}, EXnn other than 9E/A1 and FXnn other than the listed ones    *)
(* advance PC by exactly 2, change nothing else and do not fault.          *)
(***************************************************************************)
OutsideTable(opcode) ==
    \/ Top(opcode) = 0 /\ opcode % 4096 \notin {\h0E0, \h0EE}
    \/ Top(opcode) \in {5, 9} /\ opcode % 16 # 0
    \/ Top(opcode) = 8 /\ opcode % 16 \in (8..13) \cup {15}
    \/ Top(opcode) = 14 /\ opcode % 256 \notin {\h9E, \hA1}
    \/ Top(opcode) = 15
         /\ opcode % 256 \notin {\h07, \h0A, \h15, \h18, \h1E, \h29, \h33, \h55, \h65}

C9_UnlistedOpcodeIsNoOp ==
    [][(Executing /\ OutsideTable(CurOp))
        => chip8' = [chip8 EXCEPT !.pc = chip8.pc + 2]]_vars

(***************************************************************************)
(* C10: stack underflow is fatal: 00EE on an empty call stack ends in the  *)
(* panic outcome, and no step of the machine or of the host follows a      *)
(* panic.                                                                  *)
(***************************************************************************)
C10_UnderflowIsFatal ==
    [][/\ chip8.fault = FaultNone
       /\ (Executing /\ CurOp = \h00EE /\ chip8.stack = << >>)
            => chip8'.fault = FaultUnderflow]_vars

\* the machine has panicked on a return with the stack empty
C10_Witness ==
    /\ chip8.fault = FaultUnderflow
    /\ CurOp = \h00EE
    /\ chip8.stack = << >>

(***************************************************************************)
(* C11: instruction execution is total apart from stack underflow: every   *)
(* instruction other than 00EE on an empty stack completes without a       *)
(* fault; the 16-bit arithmetic on PC and on I never ends in an error.     *)
(***************************************************************************)
C11_ExecutionIsTotal ==
    [][(Executing /\ ~(CurOp = \h00EE /\ chip8.stack = << >>))
        => chip8'.fault = FaultNone]_vars

(***************************************************************************)
(* C12: memory access is total and wraps modulo 4096: save_byte(a, v)      *)
(* changes exactly the cell a mod 4096, read_byte(b) returns the content   *)
(* of cell b mod 4096, and read_byte(a + 4096*k) after save_byte(a, v)     *)
(* returns v.                                                              *)
(***************************************************************************)
C12_MemoryWraps ==
    /\ DOMAIN chip8.memory = 0..4095
    /\ call.op = "save_byte" =>
         /\ \A b \in 0..4095 :
                chip8.memory[b] = IF b = call.address % 4096
                                  THEN call.data
                                  ELSE call.before[b]
         /\ \A k \in 0..15 :
                read_byte(chip8.memory, (call.address % 4096) + 4096 * k) = call.data
    /\ call.op = "read_byte" =>
         /\ call.result = call.before[call.address % 4096]
         /\ call.result \in 0..255

\* a byte saved through an address beyond the memory size changed a cell
C12_Witness ==
    /\ call.op = "save_byte"
    /\ call.address >= 4096
    /\ call.before[call.address % 4096] # call.data
    /\ chip8.memory[call.address % 4096] = call.data

(***************************************************************************)
(* Vocabulary of the display properties: column 0 is bit 63 of a row.      *)
(***************************************************************************)
\* the last call drew a sprite row
Drew == call.op = "draw_sprite_line"

\* bit (7 - j) of the byte b is set
SpriteBit(b, j) == (b \div Pow2(7 - j)) % 2 = 1

\* the bits of the pixels of byte b drawn at column x that fall on the screen
PixelsOf(x, b) == {63 - (x + j) : j \in {j \in 0..7 : SpriteBit(b, j) /\ x + j <= 63}}

\* the row with the pixels toggled
Toggled(row, pixels) == (row \ pixels) \cup (pixels \ row)

(***************************************************************************)
(* C13: drawing the same sprite row twice erases it: for every nonzero     *)
(* byte b, x in 0..63 and y in 0..31, from an all-zero row y the first     *)
(* draw returns false, the second identical draw returns true, and row y   *)
(* is all-zero again.                                                      *)
(***************************************************************************)
\* the last call drew a nonzero byte on a row y that was all-zero
FirstDraw ==
    /\ Drew
    /\ call.sprite_data # 0
    /\ call.x \in 0..63 /\ call.y \in 0..31
    /\ call.before[call.y] = {}

\* the identical call made again on the display as it is now
SecondDraw == draw_sprite_line(chip8.buffer, call.x, call.y, call.sprite_data)

C13_DrawTwiceErases ==
    FirstDraw
        => /\ call.result = FALSE
           /\ SecondDraw.collision = TRUE
           /\ SecondDraw.buffer[call.y] = {}

\* C13, amended: the second draw returns true exactly when a pixel of the
\* byte falls on the screen (x + j <= 63 for a set bit 7 - j); the first
\* returns false and the row is all-zero again in every case.
C13_DrawTwiceErasesVisible ==
    FirstDraw
        => /\ call.result = FALSE
           /\ SecondDraw.collision = (PixelsOf(call.x, call.sprite_data) # {})
           /\ SecondDraw.buffer[call.y] = {}

\* a draw found exactly the pixels of its own sprite, part of which falls
\* off the screen, reported the collision and left the row all-zero
C13_Witness ==
    /\ Drew
    /\ call.y = 31 /\ call.x = 57 /\ call.sprite_data = \hFF
    /\ call.before[31] = PixelsOf(57, \hFF)
    /\ call.result = TRUE
    /\ chip8.buffer[31] = {}

(***************************************************************************)
(* C14: a sprite row drawn at y >= 32 is clipped: for every y in 32..255   *)
(* draw_sprite_line returns false and leaves all 32 rows unchanged.        *)
(***************************************************************************)
C14_RowsClip ==
    (Drew /\ call.y >= 32)
        => /\ call.result = FALSE
           /\ chip8.buffer = call.before

\* a nonzero byte drawn at y = 255 on a display that is not blank
C14_Witness ==
    /\ Drew
    /\ call.y = 255 /\ call.sprite_data = \hFF
    /\ call.before[31] # {}
    /\ chip8.buffer = call.before

(***************************************************************************)
(* C15: sprite rows clip horizontally and never wrap: for y in 0..31 and   *)
(* x in 0..63 the draw toggles exactly the pixels at columns x + j with    *)
(* bit 7 - j of b set and x + j <= 63; every other pixel of row y and      *)
(* every other row is unchanged.                                           *)
(***************************************************************************)
C15_ColumnsClip ==
    (Drew /\ call.y \in 0..31 /\ call.x \in 0..63)
        => chip8.buffer =
             [call.before EXCEPT ![call.y] =
                 Toggled(@, PixelsOf(call.x, call.sprite_data))]

\* 0xFF drawn at column 57 on a row that had pixels: columns 57..63 are
\* toggled and column 0 is as it was
C15_Witness ==
    /\ Drew
    /\ call.y = 31 /\ call.x = 57 /\ call.sprite_data = \hFF
    /\ call.before[31] # {}
    /\ (63 \in chip8.buffer[31]) = (63 \in call.before[31])
    /\ \A p \in 0..6 : (p \in chip8.buffer[31]) # (p \in call.before[31])

(***************************************************************************)
(* C16: collision reporting is exact: for y in 0..31 the draw returns true *)
(* if and only if a pixel of row y that was on before the call is off      *)
(* after it (old_row AND shifted_mask # 0), whichever pixels it turns on.  *)
(***************************************************************************)
C16_CollisionExact ==
    (Drew /\ call.y \in 0..31)
        => /\ call.result = (\E p \in call.before[call.y] : p \notin chip8.buffer[call.y])
           /\ call.result =
                (call.before[call.y] \cap PixelsOf(call.x, call.sprite_data) # {})

\* a draw that turned a pixel off and another on, and one that only turned
\* pixels on, are both told apart: here the former
C16_Witness ==
    /\ Drew
    /\ call.y \in 0..31
    /\ call.result = TRUE
    /\ \E p \in chip8.buffer[call.y] : p \notin call.before[call.y]
    /\ \E p \in call.before[call.y] : p \notin chip8.buffer[call.y]

(***************************************************************************)
(* C17: DXYN draws N sprite rows read from memory at I .. I+N-1 at         *)
(* (VX mod 64, VY mod 32), row r going to display row (VY mod 32) + r and  *)
(* dropped beyond row 31; afterwards VF = 1 if a drawn row collided and 0  *)
(* otherwise (also for N = 0 and for X or Y = F), and I is unchanged.      *)
(***************************************************************************)
\* the byte of sprite row k
SpriteRow(k) == chip8.memory[(chip8.i + k) % 4096]

\* display row r after the draw
DrawnRow(r) ==
    LET k == r - (chip8.v[Y(CurOp)] % 32)
    IN  IF k \in 0..(N(CurOp) - 1)
        THEN Toggled(chip8.buffer[r], PixelsOf(chip8.v[X(CurOp)] % 64, SpriteRow(k)))
        ELSE chip8.buffer[r]

\* a drawn row turns a pixel off
DrawCollides ==
    \E k \in 0..(N(CurOp) - 1) :
        LET r == (chip8.v[Y(CurOp)] % 32) + k
        IN  /\ r <= 31
            /\ chip8.buffer[r] \cap PixelsOf(chip8.v[X(CurOp)] % 64, SpriteRow(k)) # {}

C17_DrawsRows ==
    [][(Executing /\ Top(CurOp) = 13)
        => /\ chip8'.buffer = [r \in 0..31 |-> DrawnRow(r)]
           /\ chip8'.v[15] = (IF DrawCollides THEN 1 ELSE 0)
           /\ chip8'.i = chip8.i]_vars

(***************************************************************************)
(* C18: 8XY1, 8XY2 and 8XY3 always leave VF = 0, for every X and Y and     *)
(* whatever the registers held, and for X # F, VX holds the bitwise OR /   *)
(* AND / XOR of the old VX and the old VY.                                 *)
(***************************************************************************)
\* the opcode is 8XYn for the given n
Is8XY(opcode, n) == Top(opcode) = 8 /\ N(opcode) = n

\* the set bits of OR / AND / XOR in terms of the set bits of the operands
LogicBits(n, a, b) ==
    IF n = 1 THEN Bits(a) \cup Bits(b)
    ELSE IF n = 2 THEN Bits(a) \cap Bits(b)
    ELSE (Bits(a) \ Bits(b)) \cup (Bits(b) \ Bits(a))

C18_LogicClearsVF ==
    [][\A n \in 1..3 :
        (Executing /\ Is8XY(CurOp, n))
            => /\ chip8'.v[15] = 0
               /\ X(CurOp) # 15 =>
                    /\ chip8'.v[X(CurOp)] \in 0..255
                    /\ Bits(chip8'.v[X(CurOp)]) =
                         LogicBits(n, chip8.v[X(CurOp)], chip8.v[Y(CurOp)])]_vars

\* 8F01 has run with VF = 0xFF and V0 = 9 beforehand: VF is 0
C18_Witness ==
    /\ host_pc = "ticks"
    /\ PrevOp = \h8F01
    /\ chip8.pc = \h212
    /\ chip8.v[0] = 9
    /\ chip8.v[15] = 0

(***************************************************************************)
(* C19: 8XY4 is an 8-bit add with carry-out: VF = 1 if old VX + old VY >   *)
(* 255 and 0 otherwise, for X # F, VX = (old VX + old VY) mod 256, and for *)
(* X = F the carry, not the sum, remains in VF.                            *)
(***************************************************************************)
C19_AddWithCarry ==
    [][(Executing /\ Is8XY(CurOp, 4))
        => LET sum == chip8.v[X(CurOp)] + chip8.v[Y(CurOp)]
           IN  /\ chip8'.v[15] = (IF sum > 255 THEN 1 ELSE 0)
               /\ X(CurOp) # 15 => chip8'.v[X(CurOp)] = sum % 256]_vars

\* 8F04 has run with VF = 0xFF and V0 = 0xFF: the sum is 0xFE with a carry,
\* and VF holds the carry
C19_Witness ==
    /\ host_pc = "ticks"
    /\ PrevOp = \h8F04
    /\ chip8.pc = \h224
    /\ chip8.v[0] = \hFF
    /\ chip8.v[15] = 1

(***************************************************************************)
(* C20: 8XY5 and 8XY7 are wrapping subtractions with a no-borrow flag      *)
(* taken from the operands before the subtraction: after 8XY5, VF = 1 iff  *)
(* old VX >= old VY and (X # F) VX = (old VX - old VY) mod 256; after      *)
(* 8XY7, VF = 1 iff old VY >= old VX and (X # F) VX = (old VY - old VX)    *)
(* mod 256; VF ends as the flag also when X = F or Y = F.                  *)
(***************************************************************************)
\* a - b modulo 256
Minus8(a, b) == (a + 256 - b) % 256

C20_SubNoBorrow ==
    [][/\ (Executing /\ Is8XY(CurOp, 5))
            => LET vx == chip8.v[X(CurOp)]
                   vy == chip8.v[Y(CurOp)]
               IN  /\ chip8'.v[15] = (IF vx >= vy THEN 1 ELSE 0)
                   /\ X(CurOp) # 15 => chip8'.v[X(CurOp)] = Minus8(vx, vy)
       /\ (Executing /\ Is8XY(CurOp, 7))
            => LET vx == chip8.v[X(CurOp)]
                   vy == chip8.v[Y(CurOp)]
               IN  /\ chip8'.v[15] = (IF vy >= vx THEN 1 ELSE 0)
                   /\ X(CurOp) # 15 => chip8'.v[X(CurOp)] = Minus8(vy, vx)]_vars

\* 80F7 has run with V0 = 0x0A and VF = 1: V0 = 1 - 10 = 0xF7 and VF = 0
C20_Witness ==
    /\ host_pc = "ticks"
    /\ PrevOp = \h80F7
    /\ chip8.pc = \h23E
    /\ chip8.v[0] = \hF7
    /\ chip8.v[15] = 0

(***************************************************************************)
(* C21: 8XY6 and 8XYE load, then shift: after 8XY6, VF = bit 0 of the old  *)
(* VY and (X # F) VX = old VY >> 1; after 8XYE, VF = bit 7 of the old VY   *)
(* and (X # F) VX = (old VY << 1) mod 256; the old VX has no influence,    *)
(* and VY is unchanged when Y # X and Y # F.                               *)
(***************************************************************************)
C21_LoadThenShift ==
    [][/\ (Executing /\ Is8XY(CurOp, 6))
            => LET vy == chip8.v[Y(CurOp)]
               IN  /\ chip8'.v[15] = vy % 2
                   /\ X(CurOp) # 15 => chip8'.v[X(CurOp)] = vy \div 2
       /\ (Executing /\ Is8XY(CurOp, 14))
            => LET vy == chip8.v[Y(CurOp)]
               IN  /\ chip8'.v[15] = vy \div 128
                   /\ X(CurOp) # 15 => chip8'.v[X(CurOp)] = (vy * 2) % 256
       /\ (Executing /\ (Is8XY(CurOp, 6) \/ Is8XY(CurOp, 14)))
            => \A r \in 0..14 : r # X(CurOp) => chip8'.v[r] = chip8.v[r]]_vars

\* 8016 has run with V0 = 0xAA and V1 = 0xFF: V0 = 0x7F, VF = 1, V1 as it was
C21_Witness ==
    /\ host_pc = "ticks"
    /\ PrevOp = \h8016
    /\ chip8.pc = \h206
    /\ chip8.v[0] = \h7F
    /\ chip8.v[1] = \hFF
    /\ chip8.v[15] = 1

C23_SetsOnlyVX ==
    [][(Executing /\ Top(CurOp) = 6)
        => chip8' = [chip8 EXCEPT
                        !.pc = chip8.pc + 2,
                        !.v = [chip8.v EXCEPT ![(CurOp \div 256) % 16] = CurOp % 256]]]_vars

\* 6F81 has run in the program of shifts: VF = 0x81 and V0 is as 80F6 left it
C23_Witness ==
    /\ host_pc = "ticks"
    /\ PrevOp = \h6F81
    /\ chip8.pc = \h20E
    /\ chip8.v[15] = \h81
    /\ chip8.v[0] = 1

(***************************************************************************)
(* C24: 7XNN wraps without touching the flag: for X # F, VX = (old VX +    *)
(* NN) mod 256 (0xFF + 0x01 gives 0x00) and VF is unchanged, whether or    *)
(* not the addition overflowed.                                            *)
(***************************************************************************)
C24_AddWrapsNoFlag ==
    [][(Executing /\ Top(CurOp) = 7 /\ X(CurOp) # 15)
        => chip8' = [chip8 EXCEPT
                        !.pc = chip8.pc + 2,
                        !.v = [chip8.v EXCEPT ![X(CurOp)] =
                                  (chip8.v[X(CurOp)] + (CurOp % 256)) % 256]]]_vars

\* 7001 has run with V0 = 0xFF and VF = 5: V0 = 0 and VF = 5
C24_Witness ==
    /\ host_pc = "ticks"
    /\ PrevOp = \h7001
    /\ chip8.pc = \h222
    /\ chip8.v[0] = 0
    /\ chip8.v[15] = 5

(***************************************************************************)
(* C25: call and return are matched last-in-first-out: 2NNN at address A   *)
(* pushes A + 2 and sets PC = NNN; 00EE on a non-empty stack removes the   *)
(* most recently pushed address and sets PC to it; so each 00EE resumes    *)
(* after its matching call and the depth is calls minus returns.           *)
(***************************************************************************)
C25_CallReturnLifo ==
    [][/\ (Executing /\ Top(CurOp) = 2)
            => chip8' = [chip8 EXCEPT
                            !.stack = chip8.stack \o << chip8.pc + 2 >>,
                            !.pc = CurOp % 4096]
       /\ (Executing /\ CurOp = \h00EE /\ chip8.stack # << >>)
            => LET depth == Len(chip8.stack)
               IN  chip8' = [chip8 EXCEPT
                                !.pc = chip8.stack[depth],
                                !.stack = [k \in 1..(depth - 1) |-> chip8.stack[k]]]]_vars

\* the inner call, made at 0x204 within the call made at 0x200, has returned
\* to 0x206 and the outer return address is still on the stack
C25_Witness ==
    /\ host_pc = "ticks"
    /\ chip8.pc = \h206
    /\ chip8.stack = << \h202 >>
    /\ CurOp = \h00EE

(***************************************************************************)
(* C26: FX55 stores V0..VX inclusive and advances I: for every X and I,    *)
(* cell (old I + k) mod 4096 holds Vk for each k in 0..X, I = old I + X +  *)
(* 1, the registers are unchanged, and so is every other memory cell.      *)
(***************************************************************************)
\* the cells old I .. old I + X, modulo 4096
BlockCells == {(chip8.i + k) % 4096 : k \in 0..X(CurOp)}

C26_StoresRegisters ==
    [][(Executing /\ IsFX(CurOp, \h55))
        => /\ \A k \in 0..X(CurOp) :
                  chip8'.memory[(chip8.i + k) % 4096] = chip8.v[k]
           /\ chip8'.i = chip8.i + X(CurOp) + 1
           /\ chip8'.v = chip8.v
           /\ \A a \in (0..4095) \ BlockCells :
                  chip8'.memory[a] = chip8.memory[a]]_vars

(***************************************************************************)
(* C27: FX65 loads V0..VX inclusive and advances I: for every X and I, Vk  *)
(* equals cell (old I + k) mod 4096 for each k in 0..X, V(X+1)..VF are     *)
(* unchanged, I = old I + X + 1, and memory is unchanged; so FX55, I reset *)
(* and FX65 with the same X restore V0..VX.                                *)
(***************************************************************************)
C27_LoadsRegisters ==
    [][(Executing /\ IsFX(CurOp, \h65))
        => /\ \A k \in 0..X(CurOp) :
                  chip8'.v[k] = chip8.memory[(chip8.i + k) % 4096]
           /\ \A r \in (X(CurOp) + 1)..15 : chip8'.v[r] = chip8.v[r]
           /\ chip8'.i = chip8.i + X(CurOp) + 1
           /\ chip8'.memory = chip8.memory]_vars

FX0AWaits ==
    /\ Executing
    /\ IsFX(CurOp, \h0a)
    /\ \/ chip8.key_pressed = None
       \/ chip8.keys_down[chip8.key_pressed]
       \/ chip8.sound_timer # 0

KeyHeld == chip8.key_pressed # None /\ chip8.keys_down[chip8.key_pressed]

(***************************************************************************)
(* C30: while FX0A is waiting the debounce tone is asserted: every         *)
(* execution of FX0A that does not complete the instruction sets the       *)
(* sound timer to 4, so the sound timer is not 0 after it.                 *)
(***************************************************************************)
C30_ToneWhileWaiting ==
    [][FX0AWaits => chip8'.sound_timer = 4]_vars

\* C30 as amended: an execution of FX0A that does not complete sets the
\* sound timer to 4 exactly when a key is latched and still down; with the
\* latched key up it leaves the sound timer at its value, which is not 0;
\* with no key latched it leaves the sound timer at its value, 0 included.
C30_ToneWhileKeyHeld ==
    [][FX0AWaits
        => /\ chip8'.pc = chip8.pc
           /\ IF KeyHeld
              THEN chip8'.sound_timer = 4
              ELSE /\ chip8'.sound_timer = chip8.sound_timer
                   /\ chip8.key_pressed # None => chip8'.sound_timer # 0]_vars

\* FX0A has run with its latched key held and the tone is on
C30_Witness ==
    /\ host_pc = "ticks"
    /\ chip8.fault = FaultNone
    /\ CurOp = \hF30A
    /\ chip8.pc = \h200
    /\ KeyHeld
    /\ chip8.sound_timer = 4
    /\ ticks_left < MaxTicks

\* a program image has just been loaded into a new machine
Loaded == call.op = "load_rom"

\* the cells the image of the last load occupies
ImageCells == \h200..(\h200 + Len(call.source) - 1)

(***************************************************************************)
(* C31: loading a program places it verbatim at 0x200 in an otherwise      *)
(* fresh memory: for every image of length L with 0x200 + L <= 4096, L = 0 *)
(* included, after a new machine is constructed and the image loaded,      *)
(* M[0x200 + k] = image[k] for all k < L, cells 0x50..0x9F hold the font   *)
(* and every other memory cell is 0.                                       *)
(***************************************************************************)
C31_LoadVerbatim ==
    Loaded =>
        \A a \in 0..4095 :
            chip8.memory[a] =
                IF a \in ImageCells THEN call.source[a - \h200 + 1]
                ELSE IF a \in FontCells THEN FONT_BYTES[a - \h50 + 1]
                ELSE 0

\* C31 as amended: after a new machine is constructed and an image of length
\* L >= 1 with 0x200 + L <= 4096 is loaded, M[0x200 + k] = image[k] for all
\* k < L, cells 0x50..0x9F hold the font and every other cell is 0; after an
\* image of length 0 is loaded, cell 0x200 holds the 0x12 the constructor
\* wrote, cells 0x50..0x9F hold the font and every other cell is 0.
C31_LoadVerbatimOverJump ==
    Loaded =>
        \A a \in 0..4095 :
            chip8.memory[a] =
                IF a \in ImageCells THEN call.source[a - \h200 + 1]
                ELSE IF a \in FontCells THEN FONT_BYTES[a - \h50 + 1]
                ELSE IF a = \h200 THEN \h12
                ELSE 0

\* an image of three bytes has been loaded over the constructor's 0x12
C31_Witness ==
    /\ Loaded
    /\ call.source = << \h00, \hFF, \h12 >>
    /\ chip8.memory[\h200] = \h00
    /\ chip8.memory[\h202] = \h12

\* the host is where a pass of the while loop of update_emu_state can call
\* ticks
BatchCanBegin == ENABLED BeginTicks

\* a step that ends a batch: ticks returns to update_emu_state
BatchEnds == host_pc = "ticks" /\ host_pc' # "ticks"

(***************************************************************************)
(* C32: the host snapshots the input latch before each batch: every call   *)
(* of ticks is immediately preceded, with no other batch in between, by an *)
(* overwrite of all 16 keys_down entries from the input state, so when a   *)
(* batch ends no other batch can begin before the next proc_input; and     *)
(* keys_down is never written while a batch is executing.                  *)
(***************************************************************************)
C32_SnapshotBeforeEachBatch ==
    [][/\ host_pc = "ticks" => chip8'.keys_down = chip8.keys_down
       /\ BatchEnds => ~BatchCanBegin']_vars

\* an execution of FX0A
ExecutingFX0A == Executing /\ IsFX(CurOp, \h0a)

(***************************************************************************)
(* C33: FX0A waits for the same key it latched: once key k is latched, the *)
(* latch keeps the value k on every later execution of FX0A until the      *)
(* instruction completes, whatever other keys are pressed or released      *)
(* meanwhile, and the value finally written to VX is k.  Between the       *)
(* executions of FX0A nothing but the load of another program writes the   *)
(* latch.                                                                  *)
(***************************************************************************)
C33_LatchKeepsKey ==
    [][/\ (ExecutingFX0A /\ chip8.key_pressed # None)
           => \/ /\ chip8'.key_pressed = chip8.key_pressed
                 /\ chip8'.pc = chip8.pc
                 /\ chip8'.v = chip8.v
              \/ /\ chip8'.key_pressed = None
                 /\ chip8'.pc = chip8.pc + 2
                 /\ chip8'.v = [chip8.v EXCEPT ![X(CurOp)] = chip8.key_pressed]
       /\ (~ExecutingFX0A /\ loads' = loads)
           => chip8'.key_pressed = chip8.key_pressed]_vars

\* FX0A has completed with key 1, the key it latched, written to V3 while
\* key 0 is down
C33_Witness ==
    /\ chip8.fault = FaultNone
    /\ PrevOp = \hF30A
    /\ chip8.pc = \h202
    /\ chip8.v[3] = 1
    /\ chip8.key_pressed = None
    /\ chip8.keys_down[0]
    /\ ~chip8.keys_down[1]

\* the keys down in the snapshot the batch runs on
KeysDown == {k \in 0..15 : chip8.keys_down[k]}

(***************************************************************************)
(* C34: when FX0A executes with no key latched and several keys down at    *)
(* once, it latches the lowest-indexed down key; when no key is down the   *)
(* latch stays empty.                                                      *)
(***************************************************************************)
C34_LatchesLowestKey ==
    [][(ExecutingFX0A /\ chip8.key_pressed = None)
        => IF KeysDown = {}
           THEN chip8'.key_pressed = None
           ELSE /\ chip8'.key_pressed \in KeysDown
                /\ \A k \in KeysDown : chip8'.key_pressed <= k]_vars

\* FX0A has just latched key 0 with keys 0 and 1 both down
C34_Witness ==
    /\ host_pc = "ticks"
    /\ chip8.fault = FaultNone
    /\ CurOp = \hF30A
    /\ chip8.key_pressed = 0
    /\ KeysDown = {0, 1}
    /\ chip8.sound_timer = 0

\* no FX0A can complete on this snapshot: the latch is empty, or the latched
\* key is down
LatchEmptyOrHeld == chip8.key_pressed = None \/ KeyHeld

\* a step that completes FX0A: the latch is cleared
CompletesFX0A == chip8.key_pressed # None /\ chip8'.key_pressed = None

(***************************************************************************)
(* C35: FX0A never latches a key and completes within the same batch:      *)
(* keys_down is constant during a batch, so from a state of a batch where  *)
(* the latch is empty, or holds a key that is down as it does when FX0A    *)
(* has latched it in this batch, every step of the batch leaves the latch  *)
(* empty or holding a key that is down, and none completes FX0A;           *)
(* completion happens in a later batch than the one that latched the key.  *)
(***************************************************************************)
C35_NoLatchAndCompleteInBatch ==
    [][host_pc = "ticks"
        => /\ chip8'.keys_down = chip8.keys_down
           /\ LatchEmptyOrHeld => (LatchEmptyOrHeld' /\ ~CompletesFX0A)]_vars

\* FX0A has just latched key 1 and has another execution left in the batch
C35_Witness ==
    /\ host_pc = "ticks"
    /\ ticks_left = 1
    /\ chip8.fault = FaultNone
    /\ CurOp = \hF30A
    /\ chip8.pc = \h200
    /\ chip8.key_pressed = 1
    /\ KeysDown = {1}
    /\ chip8.sound_timer = 0

\* the machine is the one the host constructed, no program loaded into it
NoProgram == loads = 0

(***************************************************************************)
(* C36: a fresh machine with no program loaded idles forever: the          *)
(* constructor leaves the bytes 0x12, 0x00 at 0x200..0x201 (opcode 1200,   *)
(* jump to 0x200), so after any number of instruction executions           *)
(* PC = 0x200 and the registers, I, the stack, memory and the display      *)
(* equal their initial values, and no execution faults.                    *)
(***************************************************************************)
C36_FreshMachineIdles ==
    /\ [](NoProgram =>
            /\ chip8.memory[\h200] = \h12
            /\ chip8.memory[\h201] = \h00
            /\ CurOp = \h1200
            /\ chip8.pc = \h200
            /\ chip8.fault = FaultNone)
    /\ [][(NoProgram /\ Executing)
            => /\ chip8'.pc = \h200
               /\ chip8'.v = chip8.v
               /\ chip8'.i = chip8.i
               /\ chip8'.stack = chip8.stack
               /\ chip8'.memory = chip8.memory
               /\ chip8'.buffer = chip8.buffer
               /\ chip8'.fault = FaultNone]_vars

\* a batch has run to its end on the machine as constructed, keys 0 and 1
\* down
C36_Witness ==
    /\ NoProgram
    /\ host_pc = "ticks"
    /\ ticks_left = 0
    /\ KeysDown = {0, 1}
    /\ CurOp = \h1200
    /\ chip8.pc = \h200
    /\ FreshRegisters

====
